---- MODULE Spec2Model ----
(***************************************************************************)
(* A model of the OxLog leveled logger (src/src/logger.rs).                *)
(*                                                                         *)
(* Logger::new opens the optional log file in append+create mode and      *)
(* panics when the open fails.  Logger::log filters on the level, reads    *)
(* the clock, resolves the local-time offset, decomposes the adjusted time *)
(* into calendar fields, formats one line, prints it to stdout and appends *)
(* it to the file under the logger's mutex.                                *)
(*                                                                         *)
(* Text is modelled as a sequence of one-character strings, so that        *)
(* trimming, zero padding, partial writes and parsing act on characters.   *)
(*                                                                         *)
(* TLC's integers are 32 bits wide, the program's second counts are 64.    *)
(* A u64 second count x is therefore held as the record                    *)
(*     [wrap |-> w, d |-> x' \div 86400, s |-> x' % 86400]                 *)
(* with x = x' when w = FALSE and x = 2^64 + x' (x' < 0) when w = TRUE.    *)
(* The program's  x % 60, (x / 60) % 60, (x / 3600) % 24  and  x / 86400   *)
(* are computed on that record (60 and 3600 divide 86400).                 *)
(***************************************************************************)
EXTENDS Integers, Sequences, FiniteSets, TLC

VARIABLES
    target_os,   \* the cfg(target_os) the crate was built for
    loggers,     \* Logger id -> the constructed Logger, or its absence
    disk,        \* the log file at the one path the model uses
    stdout,      \* the lines print! has written, in order
    mutex,       \* Logger id -> the caller holding file's Mutex, or Unlocked
    calls,       \* caller -> the state of its call of Logger::log
    arg,         \* input of the pure computations (calendar, format, offset)
    res          \* their result

vars == <<target_os, loggers, disk, stdout, mutex, calls, arg, res>>
sysvars == <<target_os, loggers, disk, stdout, mutex, calls>>
purevars == <<arg, res>>

-----------------------------------------------------------------------------
(* Bounds of the model.                                                    *)

\* Number of concurrent callers of Logger::log.
NumCallers == 2
\* Bytes a short write() accepts before write_all has to call it again.
ShortWrite == 24
\* Last day (since 1970-01-01) of the calendar check: 2101-12-31.
MaxDay == 48212
\* Seconds around a boundary that the offset check samples.
MaxSkew == 2

-----------------------------------------------------------------------------
(* LogLevel                                                                *)

LogLevel == {"Trace", "Debug", "Info", "Warn", "Error"}

\* `level as u8`: the discriminant, in declaration order.
LevelOrd(level) ==
    CASE level = "Trace" -> 0
      [] level = "Debug" -> 1
      [] level = "Info"  -> 2
      [] level = "Warn"  -> 3
      [] level = "Error" -> 4

as_str(level) ==
    CASE level = "Trace" -> <<"T", "R", "A", "C", "E">>
      [] level = "Debug" -> <<"D", "E", "B", "U", "G">>
      [] level = "Info"  -> <<"I", "N", "F", "O">>
      [] level = "Warn"  -> <<"W", "A", "R", "N">>
      [] level = "Error" -> <<"E", "R", "R", "O", "R">>

\* The filter of Logger::log: TRUE when the call returns at once.
Filtered(level, threshold) == LevelOrd(level) < LevelOrd(threshold)

-----------------------------------------------------------------------------
(* The local-time offset                                                   *)

WhiteSpace == {" ", "\n", "\t", "\r"}

RECURSIVE TrimStart(_)
TrimStart(s) ==
    IF s # <<>> /\ Head(s) \in WhiteSpace THEN TrimStart(Tail(s)) ELSE s

RECURSIVE TrimEnd(_)
TrimEnd(s) ==
    IF s # <<>> /\ s[Len(s)] \in WhiteSpace
    THEN TrimEnd(SubSeq(s, 1, Len(s) - 1))
    ELSE s

\* Trimming the start only.
trim_start(s) == TrimStart(s)

\* str::trim
trim(s) == TrimEnd(TrimStart(s))

\* "America/Sao_Paulo"
TzLiteral ==
    <<"A", "m", "e", "r", "i", "c", "a", "/", "S", "a", "o", "_",
      "P", "a", "u", "l", "o">>

FixedOffset == -3 * 3600

\* tz is the outcome of read_to_string("/etc/timezone"):
\* [ok |-> TRUE, text |-> content] or [ok |-> FALSE, text |-> <<>>].
timezone_offset_seconds(os, tz) ==
    IF os = "linux"
    THEN IF tz.ok
         THEN IF trim(tz.text) = TzLiteral THEN FixedOffset ELSE 0
         ELSE 0
    ELSE FixedOffset

\* Whether the build reads the probe file at all.
ProbesTimezone(os) == os = "linux"

-----------------------------------------------------------------------------
(* Calendar decomposition                                                  *)

SecsPerDay == 86400
SecsPerHour == 3600
SecsPerMin == 60
HoursPerDay == 24
EpochYear == 1970
I32Max == 2147483647

\* (total_secs as i64 + timezone_offset_seconds) as u64.  A negative sum
\* converts to 2^64 + sum: the record keeps the sum and sets wrap.
time_with_offset(total_secs, offset) ==
    LET t == total_secs.s + offset
        d == total_secs.d + (t \div SecsPerDay)
    IN  [wrap |-> d < 0, d |-> d, s |-> t % SecsPerDay]

\* The leap rule without the century exception.
is_leap_year_julian(year) == year % 4 = 0

is_leap_year(year) ==
    (year % 4 = 0 /\ year % 100 # 0) \/ year % 400 = 0

days_in_year(year) == IF is_leap_year(year) THEN 366 ELSE 365

\* The loop `while remaining_days > 0 { ... }` over (year, remaining_days).
\* year is an i32: year += 1 overflows at I32Max.
RECURSIVE YearLoop(_, _)
YearLoop(year, remaining_days) ==
    IF remaining_days > 0 /\ remaining_days >= days_in_year(year)
    THEN IF year = I32Max
         THEN [overflow |-> TRUE, year |-> year,
               remaining_days |-> remaining_days]
         ELSE YearLoop(year + 1, remaining_days - days_in_year(year))
    ELSE [overflow |-> FALSE, year |-> year, remaining_days |-> remaining_days]

month_days(leap) ==
    <<31, IF leap THEN 29 ELSE 28, 31, 30, 31, 30, 31, 31, 30, 31, 30, 31>>

\* The loop `while month < 12 && day > month_days[month]` over (month, day);
\* month is the 0-based index, md is 1-based here.
RECURSIVE MonthLoop(_, _, _)
MonthLoop(month, day, md) ==
    IF month < 12 /\ day > md[month + 1]
    THEN MonthLoop(month + 1, day - md[month + 1], md)
    ELSE [month |-> month, day |-> day]

\* Lines 73-101 of log: the fields of an offset-adjusted second count.
\* A wrapped count is at least 2^64 - 10800 seconds, more than 2 * 10^14
\* days: the year loop needs more than 2^31 rounds of at most 366 days, so
\* the counter reaches I32Max with days to spare and  year += 1  overflows.
Decompose(t) ==
    IF t.wrap
    THEN [overflow |-> TRUE, year |-> I32Max, month |-> 0, day |-> 0,
          hours |-> (t.s \div SecsPerHour) % HoursPerDay,
          mins |-> (t.s \div SecsPerMin) % 60, secs |-> t.s % SecsPerMin]
    ELSE LET days_since_epoch == t.d
             y == YearLoop(EpochYear, days_since_epoch)
             m == MonthLoop(0, y.remaining_days + 1,
                            month_days(is_leap_year(y.year)))
         IN  [overflow |-> y.overflow, year |-> y.year,
              month |-> m.month + 1, day |-> m.day,
              hours |-> (t.s \div SecsPerHour) % HoursPerDay,
              mins |-> (t.s \div SecsPerMin) % 60, secs |-> t.s % SecsPerMin]

-----------------------------------------------------------------------------
(* Formatting                                                              *)

Digit(n) == <<"0", "1", "2", "3", "4", "5", "6", "7", "8", "9">>[n + 1]

RECURSIVE Decimal(_)
Decimal(n) ==
    IF n < 10 THEN <<Digit(n)>> ELSE Decimal(n \div 10) \o <<Digit(n % 10)>>

RECURSIVE Zeros(_)
Zeros(k) == IF k <= 0 THEN <<>> ELSE <<"0">> \o Zeros(k - 1)

\* Padding with a width one short.
PadShort(n, w) == Zeros(w - 1 - Len(Decimal(n))) \o Decimal(n)

\* format!("{:0w}", n): at least w characters, zeros after the sign.
Pad(n, w) ==
    IF n < 0
    THEN <<"-">> \o Zeros(w - 1 - Len(Decimal(-n))) \o Decimal(-n)
    ELSE Zeros(w - Len(Decimal(n))) \o Decimal(n)

\* format!("{:02}/{:02}/{:04} {:02}:{:02}:{:02}.{:03}", day, month, year,
\*         hours, mins, secs, millis)
timestamp(f, millis) ==
    Pad(f.day, 2) \o <<"/">> \o Pad(f.month, 2) \o <<"/">> \o Pad(f.year, 4)
    \o <<" ">> \o Pad(f.hours, 2) \o <<":">> \o Pad(f.mins, 2) \o <<":">>
    \o Pad(f.secs, 2) \o <<".">> \o Pad(millis, 3)

\* format!("[{}][{}] {}\n", timestamp, level.as_str(), message)
formatted(ts, level, message) ==
    <<"[">> \o ts \o <<"]", "[">> \o as_str(level) \o <<"]", " ">>
    \o message \o <<"\n">>

-----------------------------------------------------------------------------
(* The environment: the inputs the program reads                           *)

Callers == 1..NumCallers
\* The Logger instances, both constructed on the one path.
LoggerIds == {"A", "B"}

\* Content a log file may hold from an earlier run.
EarlierContent == <<"o", "l", "d", "\n">>

\* SystemTime::now(): before the epoch (duration_since fails), or d days,
\* s seconds and ms milliseconds after it.
Reading(d, s, ms) == [before |-> FALSE, d |-> d, s |-> s, ms |-> ms]
BeforeEpoch == [before |-> TRUE, d |-> 0, s |-> 0, ms |-> 0]

\* 2024-02-29 01:30:00.007 UTC, which is 2024-02-28 22:30 three hours behind.
LeapDayReading == Reading(19782, 5400, 7)

\* 1970-01-01 00:00:00.000 UTC, as a clock without a battery reads at boot.
EpochReading == Reading(0, 0, 0)

Readings == {BeforeEpoch, LeapDayReading}

Unreadable == [ok |-> FALSE, text |-> <<>>]
Content(text) == [ok |-> TRUE, text |-> text]

\* What /etc/timezone may hold when a call of log reads it.
Messages == {<<"a">>, <<"]", "b">>}

-----------------------------------------------------------------------------
(* Logger::new                                                             *)

NoLogger ==
    [state |-> "none", level |-> "Trace", file |-> FALSE, to_stdout |-> FALSE,
     log_file |-> "none"]

\* Logger { level, file, to_stdout }; log_file keeps the argument of new.
Built(level, file, to_stdout, log_file) ==
    [state |-> "built", level |-> level, file |-> file,
     to_stdout |-> to_stdout, log_file |-> log_file]

\* .expect("Unable to open log file") panicked: no Logger is returned.
Aborted(level, to_stdout, log_file) ==
    [state |-> "aborted", level |-> level, file |-> FALSE,
     to_stdout |-> to_stdout, log_file |-> log_file]

\* An open that truncates.
OpenTruncate(d) == [exists |-> TRUE, content |-> <<>>]

\* OpenOptions::new().append(true).create(true).open(path) when it succeeds:
\* the file exists afterwards and keeps what it held.
OpenAppend(d) == [exists |-> TRUE, content |-> d.content]

\* A failed open taken as "no file sink".
OpenFailedDowngrade(level, to_stdout, log_file) ==
    Built(level, FALSE, to_stdout, log_file)

\* What new makes of a failed open.
OpenFailed(level, to_stdout, log_file) == Aborted(level, to_stdout, log_file)

\* log_file is "none" (None) or "path" (Some(path)); open_ok is whether the
\* operating system lets the file be opened or created.
New(lg, level, log_file, to_stdout, open_ok) ==
    /\ loggers[lg].state = "none"
    /\ IF log_file = "none"
       THEN /\ loggers' = [loggers EXCEPT
                             ![lg] = Built(level, FALSE, to_stdout, log_file)]
            /\ disk' = disk
       ELSE IF open_ok
       THEN /\ loggers' = [loggers EXCEPT
                             ![lg] = Built(level, TRUE, to_stdout, log_file)]
            /\ disk' = OpenAppend(disk)
       ELSE /\ loggers' = [loggers EXCEPT
                             ![lg] = OpenFailed(level, to_stdout, log_file)]
            /\ disk' = disk
    /\ UNCHANGED <<target_os, stdout, mutex, calls, arg, res>>

-----------------------------------------------------------------------------
(* Logger::log                                                             *)

Idle ==
    [pc |-> "idle", lg |-> "A", level |-> "Trace", message |-> <<>>,
     line |-> <<>>, pos |-> 0, failed |-> FALSE, effects |-> {}]

\* What the caller has read once the offset is resolved.
ReadEffects(os) ==
    IF ProbesTimezone(os) THEN {"clock", "tz"} ELSE {"clock"}

\* Lines 47-108: a caller enters log(level, message) on a constructed
\* Logger: the filter, the clock, the offset, the decomposition, the format
\* and print!.  now is the clock's reading, tz the outcome of reading the
\* probe file, checked whether the build checks integer overflow.
\* The .expect on duration_since panics on a clock before the epoch.
\* year += 1  past I32Max panics in a build that checks overflow; in one
\* that does not, the counter wraps and the loop runs on through some
\* 5 * 10^11 rounds: the model leaves such a call in the loop ("year_loop").
\* print! is taken to succeed, as the specification assumes of stdout.
LogBegin(c, lg, level, message, now, tz, checked) ==
    LET self == loggers[lg]
        call == [Idle EXCEPT !.lg = lg, !.level = level, !.message = message]
        offset == timezone_offset_seconds(target_os, tz)
        f == Decompose(time_with_offset([d |-> now.d, s |-> now.s], offset))
        line == formatted(timestamp(f, now.ms), level, message)
    IN  /\ calls[c].pc = "idle"
        /\ self.state = "built"
        /\ IF Filtered(level, self.level)
           THEN /\ calls' = [calls EXCEPT ![c] = [call EXCEPT !.pc = "done"]]
                /\ stdout' = stdout
           ELSE IF now.before
           THEN /\ calls' = [calls EXCEPT ![c] =
                      [call EXCEPT !.pc = "panicked", !.effects = {"clock"}]]
                /\ stdout' = stdout
           ELSE IF f.overflow
           THEN /\ calls' = [calls EXCEPT ![c] =
                      [call EXCEPT
                         !.pc = IF checked THEN "panicked" ELSE "year_loop",
                         !.effects = ReadEffects(target_os)]]
                /\ stdout' = stdout
           ELSE /\ calls' = [calls EXCEPT ![c] =
                      [call EXCEPT
                         !.pc = IF self.file THEN "lock" ELSE "done",
                         !.line = line,
                         !.effects = ReadEffects(target_os) \cup
                             (IF self.to_stdout THEN {"stdout"} ELSE {})]]
                /\ stdout' = IF self.to_stdout THEN Append(stdout, line)
                             ELSE stdout
        /\ UNCHANGED <<target_os, loggers, disk, mutex, arg, res>>

\* The Mutex of a Logger's file holds its owner, a caller, or Unlocked.
Unlocked == 0

\* A lock that never waits.
CanLockAlways(lg) == TRUE

\* Whether file.lock() can return for a caller now.
CanLock(lg) == mutex[lg] = Unlocked

\* Line 111: file.lock().unwrap().
Lock(c) ==
    /\ calls[c].pc = "lock"
    /\ CanLock(calls[c].lg)
    /\ mutex' = [mutex EXCEPT ![calls[c].lg] = c]
    /\ calls' = [calls EXCEPT ![c].pc = "write",
                              ![c].effects = @ \cup {"lock"}]
    /\ UNCHANGED <<target_os, loggers, disk, stdout, arg, res>>

\* The file after a write() of bytes through a handle opened with append.
AppendBytes(d, bytes) == [exists |-> d.exists, content |-> d.content \o bytes]

Remaining(call) == SubSeq(call.line, call.pos + 1, Len(call.line))

\* Line 112, write_all: one write() that accepts all the bytes left.
WriteAll(c) ==
    /\ calls[c].pc = "write"
    /\ disk' = AppendBytes(disk, Remaining(calls[c]))
    /\ calls' = [calls EXCEPT ![c].pc = "unlock",
                              ![c].pos = Len(calls[c].line),
                              ![c].effects = @ \cup {"file"}]
    /\ UNCHANGED <<target_os, loggers, stdout, mutex, arg, res>>

\* write_all: one write() that accepts ShortWrite bytes; write_all loops.
WriteShort(c) ==
    /\ calls[c].pc = "write"
    /\ Len(Remaining(calls[c])) > ShortWrite
    /\ disk' = AppendBytes(disk, SubSeq(Remaining(calls[c]), 1, ShortWrite))
    /\ calls' = [calls EXCEPT ![c].pos = @ + ShortWrite,
                              ![c].effects = @ \cup {"file"}]
    /\ UNCHANGED <<target_os, loggers, stdout, mutex, arg, res>>

\* write_all: one write() that fails; `let _ =` drops the error.
WriteError(c) ==
    /\ calls[c].pc = "write"
    /\ calls' = [calls EXCEPT ![c].pc = "unlock", ![c].failed = TRUE]
    /\ UNCHANGED <<target_os, loggers, disk, stdout, mutex, arg, res>>

\* Line 113: the guard goes out of scope and log returns.
Unlock(c) ==
    /\ calls[c].pc = "unlock"
    /\ mutex' = [mutex EXCEPT ![calls[c].lg] = Unlocked]
    /\ calls' = [calls EXCEPT ![c].pc = "done"]
    /\ UNCHANGED <<target_os, loggers, disk, stdout, arg, res>>

-----------------------------------------------------------------------------
(* The logger under concurrent callers                                     *)

None == [kind |-> "none"]
NoPure == /\ arg = None /\ res = None

\* Nothing constructed, no call entered; the file is absent or holds what an
\* earlier run left.
SysInit(os) ==
    /\ target_os = os
    /\ loggers = [lg \in LoggerIds |-> NoLogger]
    /\ disk \in {[exists |-> FALSE, content |-> <<>>],
                 [exists |-> TRUE, content |-> EarlierContent]}
    /\ stdout = <<>>
    /\ mutex = [lg \in LoggerIds |-> Unlocked]
    /\ calls = [c \in Callers |-> Idle]

Init == SysInit("linux") /\ NoPure

\* The inputs of the concurrent runs: one threshold, a level below it and
\* one above it, no stdout echo, an unreadable probe file.
Thresholds == {"Info"}
Requested == {"Debug", "Error"}

Next ==
    \/ \E lg \in LoggerIds, level \in Thresholds, log_file \in {"none", "path"},
          open_ok \in BOOLEAN : New(lg, level, log_file, FALSE, open_ok)
    \/ \E c \in Callers, lg \in LoggerIds, level \in Requested,
          message \in Messages, now \in Readings :
          LogBegin(c, lg, level, message, now, Unreadable, TRUE)
    \/ \E c \in Callers : Lock(c)
    \/ \E c \in Callers : WriteAll(c)
    \/ \E c \in Callers : WriteShort(c)
    \/ \E c \in Callers : WriteError(c)
    \/ \E c \in Callers : Unlock(c)

Spec == Init /\ [][Next]_vars

\* Scheduling: a caller that can take its next step inside log takes it
\* (the thread runs), the operating system answers every write(), and the
\* mutex is fair to its waiters.  No caller is obliged to call log.
Fairness ==
    \A c \in Callers :
        /\ SF_vars(Lock(c))
        /\ WF_vars(WriteAll(c) \/ WriteShort(c) \/ WriteError(c))
        /\ WF_vars(Unlock(c))

FairSpec == Spec /\ Fairness

-----------------------------------------------------------------------------
(* One caller, one Logger, every threshold, level and sink                 *)

NextFilter ==
    \/ \E level \in LogLevel, log_file \in {"none", "path"},
          to_stdout \in BOOLEAN, open_ok \in BOOLEAN :
          New("A", level, log_file, to_stdout, open_ok)
    \/ \E level \in LogLevel, now \in Readings \cup {EpochReading},
          checked \in BOOLEAN :
          LogBegin(1, "A", level, <<"a">>, now, Unreadable, checked)
    \/ Lock(1)
    \/ WriteAll(1)
    \/ WriteShort(1)
    \/ WriteError(1)
    \/ Unlock(1)

InitFilter == (\E os \in {"linux", "other"} : SysInit(os)) /\ NoPure

SpecFilter == InitFilter /\ [][NextFilter]_vars

-----------------------------------------------------------------------------
(* The pure parts of log, on inputs drawn in the initial state             *)

\* No Logger, no call: the system the pure computations run beside.
Quiet ==
    /\ target_os = "linux"
    /\ loggers = [lg \in LoggerIds |-> NoLogger]
    /\ disk = [exists |-> FALSE, content |-> <<>>]
    /\ stdout = <<>>
    /\ mutex = [lg \in LoggerIds |-> Unlocked]
    /\ calls = [c \in Callers |-> Idle]

U64(d, s) == [wrap |-> FALSE, d |-> d, s |-> s]

\* Seconds of the day the calendar check samples: 00:00:00 and 23:59:59.
DaySeconds == {0, SecsPerDay - 1}

CalInit ==
    /\ Quiet
    /\ arg \in {[kind |-> "time", t |-> U64(d, s)] :
                    d \in 0..MaxDay, s \in DaySeconds}
    /\ res = None

\* Lines 73-101 applied to the offset-adjusted time arg.t.
CalDecompose ==
    /\ arg.kind = "time"
    /\ res = None
    /\ res' = [kind |-> "fields", f |-> Decompose(arg.t)]
    /\ UNCHANGED <<sysvars, arg>>

SpecCalendar == CalInit /\ [][CalDecompose]_vars

\* Instants the format check samples: the epoch, single-digit fields, the
\* leap day of 2024 and the last second of that year.
FmtTimes ==
    {U64(0, 0), U64(401, 3723), U64(19782, 45296), U64(20088, SecsPerDay - 1)}

FmtMillis == {0, 7, 42, 999}

FmtMessages ==
    {<<>>, <<"a">>, <<"]", " ", "x">>, <<"[", "a", "]">>, <<"\n">>,
     <<"a", "\n", "b">>, <<"]", "[", "I", "N", "F", "O", "]", " ">>,
     <<" ", "a", " ">>}

FmtInit ==
    /\ Quiet
    /\ arg \in {[kind |-> "line", t |-> t, millis |-> ms, level |-> level,
                 message |-> message] :
                    t \in FmtTimes, ms \in FmtMillis, level \in LogLevel,
                    message \in FmtMessages}
    /\ res = None

\* Lines 102-104 applied to the fields of arg.t.
FmtLine ==
    /\ arg.kind = "line"
    /\ res = None
    /\ res' = [kind |-> "line",
               line |-> formatted(timestamp(Decompose(arg.t), arg.millis),
                                  arg.level, arg.message)]
    /\ UNCHANGED <<sysvars, arg>>

SpecFormat == FmtInit /\ [][FmtLine]_vars

\* What the probe file may hold.
OffTzFiles ==
    {Unreadable,
     Content(TzLiteral),
     Content(TzLiteral \o <<"\n">>),
     Content(<<" ", "\t">> \o TzLiteral \o <<"\r", "\n">>),
     Content(TzLiteral \o <<"x">>),
     Content(SubSeq(TzLiteral, 1, 7) \o <<" ">> \o SubSeq(TzLiteral, 8, 17)),
     Content(<<"a">> \o Tail(TzLiteral)),
     Content(<<"U", "T", "C", "\n">>),
     Content(<<>>),
     Content(<<"\n">>)}

\* Clock readings around the epoch, around three hours after it, and in 2024.
OffReadings ==
    {[d |-> 0, s |-> s] : s \in 0..MaxSkew}
    \cup {[d |-> 0, s |-> -FixedOffset + k] : k \in (-MaxSkew)..MaxSkew}
    \cup {[d |-> 1, s |-> 0], [d |-> 19782, s |-> 5400]}

OffInit ==
    /\ Quiet
    /\ arg \in {[kind |-> "offset", os |-> os, tz |-> tz, total_secs |-> r] :
                    os \in {"linux", "other"}, tz \in OffTzFiles,
                    r \in OffReadings}
    /\ res = None

\* Lines 55-92: the offset, its application and the year it leads to.
OffResolve ==
    /\ arg.kind = "offset"
    /\ res = None
    /\ LET offset == timezone_offset_seconds(arg.os, arg.tz)
           t == time_with_offset(arg.total_secs, offset)
       IN  res' = [kind |-> "offset", offset |-> offset, t |-> t,
                   f |-> Decompose(t)]
    /\ UNCHANGED <<sysvars, arg>>

SpecOffset == OffInit /\ [][OffResolve]_vars

-----------------------------------------------------------------------------
(* Claims: Logger::new                                                     *)

\* C3: new called with Some(path) whose open fails never returns a Logger
\* without a file sink: every Logger that was asked for a file has one, and
\* a failed open leaves no Logger at all (the construction aborts).
C3_NoSilentDowngrade ==
    \A lg \in LoggerIds :
        /\ loggers[lg].state = "built" /\ loggers[lg].log_file = "path"
              => loggers[lg].file
        /\ loggers[lg].state = "aborted"
              => loggers[lg].log_file = "path" /\ ~loggers[lg].file

\* A construction has failed on a path while another Logger holds its file.
C3_Witness ==
    \E a, b \in LoggerIds :
        /\ loggers[a].state = "aborted"
        /\ loggers[b].state = "built" /\ loggers[b].file

IsPrefix(a, b) == Len(a) <= Len(b) /\ SubSeq(b, 1, Len(a)) = a

\* C7: the log file is append-only: in every step what the file held is a
\* prefix of what it holds next and an existing file stays; the file exists
\* once a Logger holds it.
C7_AppendOnly ==
    /\ [](\A lg \in LoggerIds :
             loggers[lg].state = "built" /\ loggers[lg].file => disk.exists)
    /\ [][/\ IsPrefix(disk.content, disk'.content)
          /\ disk.exists => disk'.exists]_vars

\* Two Loggers were constructed on a file that held an earlier run's lines,
\* and a call has appended to it.
C7_Witness ==
    /\ \A lg \in LoggerIds : loggers[lg].state = "built" /\ loggers[lg].file
    /\ IsPrefix(EarlierContent, disk.content)
    /\ Len(disk.content) > Len(EarlierContent)
    /\ \E c \in Callers : calls[c].pc = "done" /\ "file" \in calls[c].effects

-----------------------------------------------------------------------------
(* Claims: Logger::log under concurrent callers                            *)

Passes(call) == LevelOrd(call.level) >= LevelOrd(loggers[call.lg].level)

Finished(call) == call.pc \in {"done", "panicked"}

\* The file sink got the call's line, or the operating system refused it.
FileSinkServed(call) ==
    (call.line # <<>> /\ call.pos = Len(call.line)) \/ call.failed

\* C1: a finished call log(L, msg) has written its line to each enabled sink
\* if and only if ordinal(L) >= ordinal(T); below the threshold it has read
\* neither the clock nor the probe file, taken no lock and written nothing.
C1_WritesIffPasses ==
    \A c \in Callers :
        LET call == calls[c]
            self == loggers[call.lg]
        IN  Finished(call) =>
                /\ Passes(call) =>
                      /\ self.to_stdout =>
                            \E i \in 1..Len(stdout) : stdout[i] = call.line
                      /\ self.file => FileSinkServed(call)
                /\ ~Passes(call) => call.effects = {} /\ call.line = <<>>

\* C4: logging never causes the caller to fail: no call of log ends in a
\* panic, whatever the clock and the file system do.
C4_LoggingNeverFails ==
    \A c \in Callers : calls[c].pc # "panicked"

InCriticalSection(c, lg) ==
    calls[c].lg = lg /\ calls[c].pc \in {"write", "unlock"}

MutualExclusion ==
    \A lg \in LoggerIds :
        /\ Cardinality({c \in Callers : InCriticalSection(c, lg)}) <= 1
        /\ \A c \in Callers : InCriticalSection(c, lg) <=> mutex[lg] = c

\* Every caller has returned from a passing call on lg, none refused by
\* the operating system.
AllAppended(lg) ==
    /\ loggers[lg].state = "built" /\ loggers[lg].file
    /\ \A c \in Callers :
          /\ calls[c].pc = "done" /\ calls[c].lg = lg
          /\ Passes(calls[c]) /\ ~calls[c].failed

Orders ==
    {o \in [1..NumCallers -> Callers] :
        \A i, j \in 1..NumCallers : o[i] = o[j] => i = j}

RECURSIVE LinesIn(_, _)
LinesIn(o, i) ==
    IF i > NumCallers THEN <<>> ELSE calls[o[i]].line \o LinesIn(o, i + 1)

Newlines(s) == Cardinality({i \in 1..Len(s) : s[i] = "\n"})

\* C2: at most one caller of a Logger is inside the write at any instant,
\* and once NumCallers callers have all returned from passing calls on the
\* same Logger (no append refused by the operating system) the file holds,
\* after what it held before, exactly their lines, whole, one per call, in
\* some order.
C2_WholeLines ==
    /\ MutualExclusion
    /\ \A lg \in LoggerIds :
          AllAppended(lg) =>
              \E prior \in {<<>>, EarlierContent}, o \in Orders :
                  /\ disk.content = prior \o LinesIn(o, 1)
                  /\ Newlines(disk.content) = Newlines(prior) + NumCallers

\* All callers have appended different lines through the same Logger.
C2_Witness ==
    \E lg \in LoggerIds :
        /\ AllAppended(lg)
        /\ \A c, e \in Callers : c # e => calls[c].line # calls[e].line

\* C9: under fair scheduling every call of log that was entered eventually
\* returns; the lock is held only around the append; a Logger with no file
\* sink takes no lock.
C9_EveryCallReturns ==
    /\ [](\A c \in Callers :
             /\ "lock" \in calls[c].effects => loggers[calls[c].lg].file
             /\ calls[c].pc \in {"done", "panicked", "idle", "lock"}
                   => \A lg \in LoggerIds : mutex[lg] # c)
    /\ \A c \in Callers : (calls[c].pc # "idle") ~> (calls[c].pc = "done")

-----------------------------------------------------------------------------
(* Claims: the calendar                                                    *)

\* The proleptic Gregorian date of day z since 1970-01-01, by era
\* arithmetic on 400-year cycles (no loop over years or months).
CivilFromDays(days) ==
    LET z == days + 719468
        era == z \div 146097
        doe == z - era * 146097
        yoe == (doe - doe \div 1460 + doe \div 36524 - doe \div 146096)
                   \div 365
        doy == doe - (365 * yoe + yoe \div 4 - yoe \div 100)
        mp == (5 * doy + 2) \div 153
        d == doy - (153 * mp + 2) \div 5 + 1
        m == IF mp < 10 THEN mp + 3 ELSE mp - 9
    IN  [year |-> yoe + era * 400 + (IF m <= 2 THEN 1 ELSE 0),
         month |-> m, day |-> d]

GregorianLeap(y) == (y % 4 = 0 /\ y % 100 # 0) \/ y % 400 = 0

MonthLength(y, m) ==
    IF m = 2 THEN (IF GregorianLeap(y) THEN 29 ELSE 28)
    ELSE IF m \in {4, 6, 9, 11} THEN 30 ELSE 31

\* C5: the fields log derives from an offset-adjusted second count t >= 0
\* are the Gregorian date and the time of day of t seconds after
\* 1970-01-01 00:00:00; month is in 1..12, day in 1..length of the month,
\* and 29 February appears only in leap years.
C5_CivilDate ==
    res.kind = "fields" =>
        LET f == res.f
            civil == CivilFromDays(arg.t.d)
        IN  /\ ~f.overflow
            /\ f.year = civil.year /\ f.month = civil.month
            /\ f.day = civil.day
            /\ f.month \in 1..12
            /\ f.day \in 1..MonthLength(f.year, f.month)
            /\ f.day = 29 /\ f.month = 2 => GregorianLeap(f.year)
            /\ f.hours \in 0..23 /\ f.mins \in 0..59 /\ f.secs \in 0..59
            /\ f.hours * 3600 + f.mins * 60 + f.secs = arg.t.s

\* 2100-03-01 23:59:59, the day after 28 February of a century year that
\* is not a leap year, has been decomposed.
C5_Witness ==
    /\ res.kind = "fields"
    /\ res.f.year = 2100 /\ res.f.month = 3 /\ res.f.day = 1
    /\ res.f.hours = 23 /\ res.f.secs = 59

-----------------------------------------------------------------------------
(* Claims: the line format                                                 *)

Digits == {"0", "1", "2", "3", "4", "5", "6", "7", "8", "9"}

DigitValue(ch) == CHOOSE n \in 0..9 : Digit(n) = ch

RECURSIVE Number(_)
Number(s) ==
    IF s = <<>> THEN 0
    ELSE 10 * Number(SubSeq(s, 1, Len(s) - 1)) + DigitValue(s[Len(s)])

\* The first index at or after i where s holds ch, or 0.
RECURSIVE IndexOf(_, _, _)
IndexOf(s, ch, i) ==
    IF i > Len(s) THEN 0 ELSE IF s[i] = ch THEN i ELSE IndexOf(s, ch, i + 1)

\* Strips the two leading bracket groups, the single space and the final
\* newline of a line.
ParseLine(line) ==
    LET c1 == IndexOf(line, "]", 2)
        c2 == IndexOf(line, "]", c1 + 2)
        ok == /\ Len(line) >= 6 /\ line[1] = "[" /\ c1 > 0
              /\ c1 + 1 <= Len(line) /\ line[c1 + 1] = "[" /\ c2 > 0
              /\ c2 + 1 < Len(line) /\ line[c2 + 1] = " "
              /\ line[Len(line)] = "\n"
    IN  IF ok
        THEN [ok |-> TRUE, timestamp |-> SubSeq(line, 2, c1 - 1),
              level |-> SubSeq(line, c1 + 2, c2 - 1),
              message |-> SubSeq(line, c2 + 2, Len(line) - 1)]
        ELSE [ok |-> FALSE, timestamp |-> <<>>, level |-> <<>>,
              message |-> <<>>]

\* DD/MM/YYYY HH:MM:SS.mmm
TimestampShape(ts) ==
    /\ Len(ts) = 23
    /\ \A i \in {1, 2, 4, 5, 7, 8, 9, 10, 12, 13, 15, 16, 18, 19, 21, 22, 23} :
          ts[i] \in Digits
    /\ ts[3] = "/" /\ ts[6] = "/" /\ ts[11] = " "
    /\ ts[14] = ":" /\ ts[17] = ":" /\ ts[20] = "."

UpperName(level) ==
    CASE level = "Trace" -> <<"T", "R", "A", "C", "E">>
      [] level = "Debug" -> <<"D", "E", "B", "U", "G">>
      [] level = "Info"  -> <<"I", "N", "F", "O">>
      [] level = "Warn"  -> <<"W", "A", "R", "N">>
      [] level = "Error" -> <<"E", "R", "R", "O", "R">>

-----------------------------------------------------------------------------
(* Claims: the local-time offset                                           *)

AllWhite(s) == \A i \in 1..Len(s) : s[i] \in WhiteSpace

\* text is the literal with nothing but white space before and after it.
IsLiteralPadded(text) ==
    \E i \in 0..Len(text) :
        /\ i + Len(TzLiteral) <= Len(text)
        /\ AllWhite(SubSeq(text, 1, i))
        /\ SubSeq(text, i + 1, i + Len(TzLiteral)) = TzLiteral
        /\ AllWhite(SubSeq(text, i + Len(TzLiteral) + 1, Len(text)))

\* C8 as stated: on Linux the offset is -3 hours only when the probe file's
\* content is exactly the literal, and zero for any other content or an
\* unreadable file; elsewhere it is -3 hours.
C8_ExactLiteral ==
    res.kind = "offset" =>
        res.offset =
            IF arg.os = "linux"
            THEN IF arg.tz.ok /\ arg.tz.text = TzLiteral THEN -10800 ELSE 0
            ELSE -10800

\* C8, amended: on Linux the offset is -3 hours exactly when the probe file
\* is readable and its content, leading and trailing white space aside, is
\* the literal; zero otherwise; elsewhere it is -3 hours whatever the file.
C8_TrimmedLiteral ==
    res.kind = "offset" =>
        res.offset =
            IF arg.os = "linux"
            THEN IF arg.tz.ok /\ IsLiteralPadded(arg.tz.text)
                 THEN -10800 ELSE 0
            ELSE -10800

\* On Linux a probe file holding the literal and a line end gave -3 hours.
C8_Witness ==
    /\ res.kind = "offset" /\ arg.os = "linux"
    /\ arg.tz = Content(TzLiteral \o <<"\n">>)
    /\ res.offset = -10800

\* C10: for a clock reading of s >= 0 seconds and an offset of 0 or -10800
\* the time log decomposes is the integer s + offset (the conversion to
\* u64 does not wrap) and the year counter stays within an i32.
C10_NoWrap ==
    res.kind = "offset" =>
        /\ res.offset \in {0, -10800}
        /\ ~res.t.wrap
        /\ (res.t.d - arg.total_secs.d) * SecsPerDay
               + (res.t.s - arg.total_secs.s) = res.offset
        /\ ~res.f.overflow
        /\ res.f.year \in EpochYear..I32Max

====
